---- MODULE Spec2Model ----
(***************************************************************************)
(* Model of src/sign.rs of rustls-rustcrypto: the key-type dispatchers     *)
(* any_supported_type / any_ecdsa_type / any_eddsa_type and the two signer *)
(* adapters GenericSigner and GenericRandomizedSigner.                     *)
(*                                                                         *)
(* Two specifications share the module:                                    *)
(*   Spec      the dispatchers, called on private-key inputs under a       *)
(*             build-time feature set;                                     *)
(*   SignSpec  sign() and scheme() calls on a population of signers.       *)
(***************************************************************************)
EXTENDS Naturals, Sequences, FiniteSets

VARIABLES
    features,   \* the cargo features of the build (fixed for a behaviour)
    calls,      \* dispatcher calls made so far: <<[fn, der, result], ...>>
    signers,    \* the signer objects in existence: id -> [kind, key, scheme]
    rejects,    \* the keys whose signing primitive rejects (external)
    rng,        \* rand_core::OsRng: the number of values it has handed out
    signLog     \* sign()/scheme() calls made so far

vars == <<features, calls, signers, rejects, rng, signLog>>

\* ------------------------------------------------------------------ bounds
MaxCalls == 2
MaxSigns == 3

\* ------------------------------------------------------- dispatch: data
\* The algorithm families of sign.rs, one constructor (TryFrom) each.
Families == {"RSA", "ECDSA-P256", "ECDSA-P384", "Ed25519"}

\* The cargo features that gate a constructor (#[cfg(feature = ...)]).
Features == {"p256", "p384", "x25519"}

\* The constructors a build holds: RSA is not feature-gated.
CompiledIn(fs) ==
    {"RSA"}
        \cup (IF "p256" \in fs THEN {"ECDSA-P256"} ELSE {})
        \cup (IF "p384" \in fs THEN {"ECDSA-P384"} ELSE {})
        \cup (IF "x25519" \in fs THEN {"Ed25519"} ELSE {})

\* Result<Arc<dyn SigningKey>, rustls::Error>, as a record of strings.
Ok(family) == [ok |-> TRUE, family |-> family, err |-> "-"]
Err(e) == [ok |-> FALSE, family |-> "-", err |-> e]

\* Error::General("not supported".into())
NotSupported == "not supported"

\* A PrivateKeyDer input, described by the constructors that accept it: the
\* parsers live outside sign.rs, so an input is what they make of it.
Ders == SUBSET Families

\* The zero-length input: no constructor parses it.
EmptyDer == {}

\* The error the constructor of family f produces on an input it rejects.
ConstructorError(f) == "cannot decode " \o f \o " key"

\* <Key>::try_from(der).map(|x| Arc::new(x) as _)
TryFrom(f, der) == IF f \in der THEN Ok(f) ELSE Err(ConstructorError(f))

\* Result::or_else: keep a success, otherwise take the alternative's result.
OrElse(r, alt) == IF r.ok THEN r ELSE alt

\* (variant of any_eddsa_type: the failure is collapsed to the generic error)
any_eddsa_type_generic_error(der) ==
    IF "x25519" \in features /\ "Ed25519" \in der
    THEN Ok("Ed25519")
    ELSE Err(NotSupported)

\* pub fn any_eddsa_type(der)
any_eddsa_type(der) ==
    LET r0 == Err(NotSupported)
        r1 == IF "x25519" \in features
              THEN OrElse(r0, TryFrom("Ed25519", der))
              ELSE r0
    IN  r1

\* (variant of any_ecdsa_type: the P-384 block placed before the P-256 block)
any_ecdsa_type_p384_first(der) ==
    LET r0 == Err(NotSupported)
        r1 == IF "p384" \in features
              THEN OrElse(r0, TryFrom("ECDSA-P384", der))
              ELSE r0
        r2 == IF "p256" \in features
              THEN OrElse(r1, TryFrom("ECDSA-P256", der))
              ELSE r1
    IN  r2

\* pub fn any_ecdsa_type(der)
any_ecdsa_type(der) ==
    LET r0 == Err(NotSupported)
        r1 == IF "p256" \in features
              THEN OrElse(r0, TryFrom("ECDSA-P256", der))
              ELSE r0
        r2 == IF "p384" \in features
              THEN OrElse(r1, TryFrom("ECDSA-P384", der))
              ELSE r1
    IN  r2

\* (variant of any_supported_type: the ECDSA family tried before RSA)
any_supported_type_ecdsa_first(der) ==
    OrElse(OrElse(any_ecdsa_type(der), TryFrom("RSA", der)), any_eddsa_type(der))

\* (variant of any_supported_type: the EdDSA fallback left out)
any_supported_type_no_eddsa(der) ==
    OrElse(TryFrom("RSA", der), any_ecdsa_type(der))

\* pub fn any_supported_type(der)
any_supported_type(der) ==
    OrElse(OrElse(TryFrom("RSA", der), any_ecdsa_type(der)), any_eddsa_type(der))

\* ---------------------------------------------------- dispatch: actions
Call(fn, der, result) == [fn |-> fn, der |-> der, result |-> result]

\* A caller resolves a key with any_supported_type.
ResolveAny ==
    \E der \in Ders :
        /\ Len(calls) < MaxCalls
        /\ calls' = Append(calls, Call("any_supported_type", der, any_supported_type(der)))
        /\ UNCHANGED <<features, signers, rejects, rng, signLog>>

\* A caller resolves a key with any_ecdsa_type.
ResolveEcdsaOnly ==
    \E der \in Ders :
        /\ Len(calls) < MaxCalls
        /\ calls' = Append(calls, Call("any_ecdsa_type", der, any_ecdsa_type(der)))
        /\ UNCHANGED <<features, signers, rejects, rng, signLog>>

\* A caller resolves a key with any_eddsa_type.
ResolveEddsaOnly ==
    \E der \in Ders :
        /\ Len(calls) < MaxCalls
        /\ calls' = Append(calls, Call("any_eddsa_type", der, any_eddsa_type(der)))
        /\ UNCHANGED <<features, signers, rejects, rng, signLog>>

\* Any build (feature set), no call made yet, no signer in existence.
Init ==
    /\ features \in SUBSET Features
    /\ calls = <<>>
    /\ signers = <<>>
    /\ rejects = {}
    /\ rng = 0
    /\ signLog = <<>>

Next == ResolveAny \/ ResolveEcdsaOnly \/ ResolveEddsaOnly

Spec == Init /\ [][Next]_vars

\* ----------------------------------------------------- dispatch: claims
\* The fixed precedence RSA > ECDSA-P256 > ECDSA-P384 > Ed25519.
Precedence == <<"RSA", "ECDSA-P256", "ECDSA-P384", "Ed25519">>

Rank(f) == CHOOSE i \in DOMAIN Precedence : Precedence[i] = f

\* The constructors of the build that accept the input.
Accepting(der) == der \cap CompiledIn(features)

\* The accepting family that comes first in the precedence.
Earliest(fams) == CHOOSE f \in fams : \A g \in fams : Rank(f) <= Rank(g)

CallsOf(fn) == {i \in DOMAIN calls : calls[i].fn = fn}

\* C1: whenever a compiled-in constructor accepts the input,
\* any_supported_type returns the handle of the accepting family that is
\* earliest in RSA > ECDSA-P256 > ECDSA-P384 > Ed25519, and two calls on the
\* same input resolve to the same family.
C1_Precedence ==
    /\ \A i \in CallsOf("any_supported_type") :
           Accepting(calls[i].der) # {} =>
               /\ calls[i].result.ok
               /\ calls[i].result.family = Earliest(Accepting(calls[i].der))
    /\ \A i, j \in CallsOf("any_supported_type") :
           calls[i].der = calls[j].der =>
               calls[i].result.family = calls[j].result.family

\* An input that several compiled-in families accept, RSA not among them,
\* resolved twice.
C1_Witness ==
    \E i, j \in CallsOf("any_supported_type") :
        /\ i # j
        /\ calls[i].der = calls[j].der
        /\ Cardinality(Accepting(calls[i].der)) >= 2
        /\ "RSA" \notin calls[i].der
        /\ calls[i].result.ok

\* The values a dispatcher can return: a handle of a compiled-in family, or
\* an error value.
WellFormed(r) ==
    \/ r.ok /\ r.family \in CompiledIn(features) /\ r.err = "-"
    \/ ~r.ok /\ r.family = "-" /\ r.err # "-"

\* C2: any_supported_type returns an error exactly when no compiled-in
\* constructor accepts the input (the zero-length input included), and what
\* it returns is always an ordinary value: a handle or an error, never both.
C2_ErrorIffAllReject ==
    \A i \in CallsOf("any_supported_type") :
        /\ WellFormed(calls[i].result)
        /\ (Accepting(calls[i].der) = {}) <=> ~calls[i].result.ok

\* The zero-length input was rejected, and so was an input that only a
\* family left out of the build accepts.
C2_Witness ==
    \E i, j \in CallsOf("any_supported_type") :
        /\ calls[i].der = EmptyDer
        /\ ~calls[i].result.ok
        /\ calls[j].der # {}
        /\ Accepting(calls[j].der) = {}
        /\ ~calls[j].result.ok

\* C3: every failure of a dispatcher is the one generic "not supported"
\* error, whatever the constructors' own errors were.
C3_SingleGenericError ==
    \A i \in DOMAIN calls :
        ~calls[i].result.ok => calls[i].result.err = NotSupported

\* What first-success-wins gives within the ECDSA family.
EcdsaExpected(der) ==
    IF "ECDSA-P256" \in Accepting(der) THEN "ECDSA-P256"
    ELSE IF "ECDSA-P384" \in Accepting(der) THEN "ECDSA-P384"
    ELSE "-"

\* C4: any_ecdsa_type returns the P-256 handle if that constructor is
\* compiled in and accepts, otherwise the P-384 handle likewise, otherwise an
\* error; any_eddsa_type returns the Ed25519 handle or an error; neither
\* returns a handle of another family.
C4_SubDispatchers ==
    /\ \A i \in CallsOf("any_ecdsa_type") :
           /\ calls[i].result.family = EcdsaExpected(calls[i].der)
           /\ calls[i].result.ok <=> EcdsaExpected(calls[i].der) # "-"
    /\ \A i \in CallsOf("any_eddsa_type") :
           /\ calls[i].result.ok <=> "Ed25519" \in Accepting(calls[i].der)
           /\ calls[i].result.family \in {"Ed25519", "-"}
           /\ calls[i].result.ok => calls[i].result.family = "Ed25519"

\* any_ecdsa_type resolved an input both curves (and RSA) accept, and
\* any_eddsa_type failed on an input RSA accepts.
C4_Witness ==
    /\ \E i \in CallsOf("any_ecdsa_type") :
           /\ {"RSA", "ECDSA-P256", "ECDSA-P384"} \subseteq Accepting(calls[i].der)
           /\ calls[i].result.ok
    /\ \E j \in CallsOf("any_eddsa_type") :
           /\ "RSA" \in calls[j].der
           /\ ~calls[j].result.ok

\* The error of the last constructor each dispatcher tries in this build.
LastError(fn) ==
    IF fn = "any_ecdsa_type"
    THEN IF "p384" \in features THEN ConstructorError("ECDSA-P384")
         ELSE IF "p256" \in features THEN ConstructorError("ECDSA-P256")
         ELSE NotSupported
    ELSE IF "x25519" \in features THEN ConstructorError("Ed25519")
         ELSE NotSupported

\* C10: a failing dispatcher returns the error of the last constructor it
\* tried, and the literal "not supported" only when the last sub-dispatcher
\* it ran has no family member compiled in.
C10_LastErrorWins ==
    \A i \in DOMAIN calls :
        ~calls[i].result.ok => calls[i].result.err = LastError(calls[i].fn)

\* any_supported_type failed with the Ed25519 constructor's error in a full
\* build, and any_ecdsa_type failed too.
C10_Witness ==
    /\ features = Features
    /\ \E i \in CallsOf("any_supported_type") :
           /\ ~calls[i].result.ok
           /\ calls[i].result.err = ConstructorError("Ed25519")
    /\ \E j \in CallsOf("any_ecdsa_type") : ~calls[j].result.ok

\* ---------------------------------------------------------- signing: data
\* The two adapter types of sign.rs.
Kinds == {"GenericSigner", "GenericRandomizedSigner"}

\* The private keys behind the signers (Arc<T>), and messages to sign.
Keys == {"k1", "k2"}
Msgs == {"m1", "m2"}

\* rustls::SignatureScheme values a signer may be bound to.
Schemes == {"ECDSA_NISTP256_SHA256", "ED25519"}

\* A signer object: its type and its two fields (key, scheme).
SignerValues == [kind : Kinds, key : Keys, scheme : Schemes]

\* The signers of a run.
SignerIds == {"s1", "s2"}

\* What a signing primitive returns: Result<S, signature::Error>.  A
\* signature is the triple of what went into it: key, message, random value
\* (0 for a deterministic primitive).
PrimOk(sig) == [ok |-> TRUE, sig |-> sig, err |-> "-"]
PrimErr(e) == [ok |-> FALSE, sig |-> <<>>, err |-> e]

\* What sign() returns: Result<Vec<u8>, rustls::Error>.
SignOk(sig) == [ok |-> TRUE, sig |-> sig, err |-> "-"]
SignErr(e) == [ok |-> FALSE, sig |-> <<>>, err |-> e]

\* rustls::Error::General("signing failed".into())
SigningFailed == "signing failed"

\* rand_core::OsRng asked for a value: the next value of the process-wide
\* source, never handed out before, or 0 when the source fails.
OsRng(rngOk) == IF rngOk THEN rng + 1 ELSE 0

\* signature::Signer::try_sign for key: rejected by a key in a bad state,
\* otherwise the signature the key and the message determine.
try_sign(key, message) ==
    IF key \in rejects
    THEN PrimErr("primitive rejected")
    ELSE PrimOk(<<key, message, 0>>)

\* signature::RandomizedSigner::try_sign_with_rng for key, with the value the
\* rng gave it (0: the rng failed).
try_sign_with_rng(key, value, message) ==
    IF value = 0 THEN PrimErr("rng failure")
    ELSE IF key \in rejects THEN PrimErr("primitive rejected")
    ELSE PrimOk(<<key, message, value>>)

\* One invocation of a primitive, as sign() made it.
Invocation(key, message, value, out) ==
    [key |-> key, msg |-> message, value |-> value, out |-> out]

\* .map_err(|_| rustls::Error::General("signing failed".into()))
\* .map(|sig: S| sig.to_vec())
Collapse(out) == IF out.ok THEN SignOk(out.sig) ELSE SignErr(SigningFailed)

\* (variant of sign: the random value is computed from the message)
GenericRandomizedSigner_sign_from_message(self, message, rngOk) ==
    LET value == IF message = "m1" THEN 1 ELSE 2
        out == try_sign_with_rng(self.key, value, message)
    IN  [result |-> Collapse(out),
         prim |-> <<Invocation(self.key, message, value, out)>>,
         rng |-> rng]

\* (variant of sign: the primitive's own error is passed on)
GenericRandomizedSigner_sign_detailed(self, message, rngOk) ==
    LET value == OsRng(rngOk)
        out == try_sign_with_rng(self.key, value, message)
    IN  [result |-> IF out.ok THEN SignOk(out.sig) ELSE SignErr(out.err),
         prim |-> <<Invocation(self.key, message, value, out)>>,
         rng |-> IF rngOk THEN rng + 1 ELSE rng]

\* (variant of sign: a failed signing step is tried once more)
GenericRandomizedSigner_sign_retry(self, message, rngOk) ==
    LET value == OsRng(rngOk)
        out == try_sign_with_rng(self.key, value, message)
        again == try_sign_with_rng(self.key, value, message)
    IN  [result |-> Collapse(IF out.ok THEN out ELSE again),
         prim |-> IF out.ok
                  THEN <<Invocation(self.key, message, value, out)>>
                  ELSE <<Invocation(self.key, message, value, out),
                         Invocation(self.key, message, value, again)>>,
         rng |-> IF rngOk THEN rng + 1 ELSE rng]

\* GenericRandomizedSigner::sign(&self, message): the result, the primitive
\* invocations made, and the rng's state afterwards.
GenericRandomizedSigner_sign(self, message, rngOk) ==
    LET value == OsRng(rngOk)
        out == try_sign_with_rng(self.key, value, message)
    IN  [result |-> Collapse(out),
         prim |-> <<Invocation(self.key, message, value, out)>>,
         rng |-> IF rngOk THEN rng + 1 ELSE rng]

\* (variant of sign: the deterministic adapter signs with the rng)
GenericSigner_sign_randomized(self, message) ==
    GenericRandomizedSigner_sign(self, message, TRUE)

\* GenericSigner::sign(&self, message)
GenericSigner_sign(self, message) ==
    LET out == try_sign(self.key, message)
    IN  [result |-> Collapse(out),
         prim |-> <<Invocation(self.key, message, 0, out)>>,
         rng |-> rng]

\* GenericSigner::scheme(&self)
GenericSigner_scheme(self) == self.scheme

\* (variant of scheme: a fixed scheme instead of the field)
GenericRandomizedSigner_scheme_fixed(self) == "ED25519"

\* GenericRandomizedSigner::scheme(&self)
GenericRandomizedSigner_scheme(self) == self.scheme

\* ------------------------------------------------------- signing: actions
SignEntry(id, message, r) ==
    [op |-> "sign", id |-> id, msg |-> message,
     result |-> r.result, prim |-> r.prim, scheme |-> "-"]

SchemeEntry(id, sch) ==
    [op |-> "scheme", id |-> id, msg |-> "-",
     result |-> SignErr("-"), prim |-> <<>>, scheme |-> sch]

\* sign() on a deterministic signer.
SignDeterministic ==
    \E id \in SignerIds, message \in Msgs :
        /\ Len(signLog) < MaxSigns
        /\ signers[id].kind = "GenericSigner"
        /\ LET r == GenericSigner_sign(signers[id], message)
           IN  /\ signLog' = Append(signLog, SignEntry(id, message, r))
               /\ rng' = r.rng
        /\ UNCHANGED <<features, calls, signers, rejects>>

\* sign() on a randomized signer; the rng may fail.
SignRandomized ==
    \E id \in SignerIds, message \in Msgs, rngOk \in BOOLEAN :
        /\ Len(signLog) < MaxSigns
        /\ signers[id].kind = "GenericRandomizedSigner"
        /\ LET r == GenericRandomizedSigner_sign(signers[id], message, rngOk)
           IN  /\ signLog' = Append(signLog, SignEntry(id, message, r))
               /\ rng' = r.rng
        /\ UNCHANGED <<features, calls, signers, rejects>>

\* scheme() on either kind of signer.
Scheme ==
    \E id \in SignerIds :
        /\ Len(signLog) < MaxSigns
        /\ LET sch == IF signers[id].kind = "GenericSigner"
                      THEN GenericSigner_scheme(signers[id])
                      ELSE GenericRandomizedSigner_scheme(signers[id])
           IN  signLog' = Append(signLog, SchemeEntry(id, sch))
        /\ UNCHANGED <<features, calls, signers, rejects, rng>>

\* Any population of signers over the keys, any set of keys in a bad state.
SignInit ==
    /\ features = Features
    /\ calls = <<>>
    /\ signers \in [SignerIds -> SignerValues]
    /\ rejects \in SUBSET Keys
    /\ rng = 0
    /\ signLog = <<>>

SignNext == SignDeterministic \/ SignRandomized \/ Scheme

SignSpec == SignInit /\ [][SignNext]_vars

\* -------------------------------------------------------- signing: claims
SignCalls == {i \in DOMAIN signLog : signLog[i].op = "sign"}

SignCallsOn(kind) == {i \in SignCalls : signers[signLog[i].id].kind = kind}

\* The sign() calls on randomized signers whose primitive got a random value.
Drawn ==
    {i \in SignCallsOn("GenericRandomizedSigner") :
        \E n \in DOMAIN signLog[i].prim : signLog[i].prim[n].value # 0}

ValueOf(i) == signLog[i].prim[1].value

\* C5: every sign() on a randomized signer hands its primitive a value newly
\* drawn from the process-wide source: no two calls share a value, whatever
\* their signers and messages, the values used are exactly the values the
\* source has handed out, and a call the source gave no value fails.
C5_FreshRandomness ==
    /\ \A i, j \in Drawn : i # j => ValueOf(i) # ValueOf(j)
    /\ {ValueOf(i) : i \in Drawn} = 1 .. rng
    /\ \A i \in Drawn : signLog[i].result.ok => signLog[i].result.sig[3] = ValueOf(i)
    /\ \A i \in SignCallsOn("GenericRandomizedSigner") \ Drawn : ~signLog[i].result.ok

\* One randomized signer signed the same message twice, and another signer
\* signed it too: three signatures, three values.
C5_Witness ==
    \E i, j, k \in Drawn :
        /\ i < j /\ j < k
        /\ signLog[i].id = signLog[j].id
        /\ signLog[k].id # signLog[i].id
        /\ signLog[i].msg = signLog[j].msg /\ signLog[j].msg = signLog[k].msg
        /\ signLog[i].result.ok /\ signLog[j].result.ok /\ signLog[k].result.ok
        /\ signLog[i].result # signLog[j].result

\* C6: two sign() calls on deterministic signers with the same key and the
\* same message return identical results, whatever was signed in between.
C6_Deterministic ==
    \A i, j \in SignCallsOn("GenericSigner") :
        /\ signers[signLog[i].id].key = signers[signLog[j].id].key
        /\ signLog[i].msg = signLog[j].msg
        => signLog[i].result = signLog[j].result

\* A deterministic signer signed a message, a randomized signer signed in
\* between, and the deterministic signer signed the message again.
C6_Witness ==
    \E i, j \in SignCallsOn("GenericSigner") :
        \E k \in SignCallsOn("GenericRandomizedSigner") :
            /\ i < k /\ k < j
            /\ signLog[i].id = signLog[j].id
            /\ signLog[i].msg = signLog[j].msg
            /\ signLog[i].result.ok
            /\ signLog[k].result.ok

\* C7: sign() returns either the signature its primitive produced or the one
\* value "signing failed", whatever made the signing step fail.
C7_OpaqueFailure ==
    \A i \in SignCalls :
        LET e == signLog[i]
            last == e.prim[Len(e.prim)].out
        IN  /\ e.result.ok => last.ok /\ e.result.sig = last.sig /\ e.result.err = "-"
            /\ ~e.result.ok => e.result.err = SigningFailed /\ e.result.sig = <<>>

\* Three failures with three causes: the rng failed, a randomized primitive
\* rejected, a deterministic primitive rejected.
C7_Witness ==
    \E i, j, k \in SignCalls :
        /\ signLog[i].prim[1].out.err = "rng failure"
        /\ signLog[j].prim[1].out.err = "primitive rejected"
        /\ signers[signLog[j].id].kind = "GenericRandomizedSigner"
        /\ signLog[k].prim[1].out.err = "primitive rejected"
        /\ signers[signLog[k].id].kind = "GenericSigner"
        /\ ~signLog[i].result.ok /\ ~signLog[j].result.ok /\ ~signLog[k].result.ok

SchemeCalls == {i \in DOMAIN signLog : signLog[i].op = "scheme"}

\* Every scheme() call so far returned a scheme, the one its signer holds.
SchemeCallsReturnBound ==
    \A i \in SchemeCalls :
        /\ signLog[i].scheme \in Schemes
        /\ signLog[i].scheme = signers[signLog[i].id].scheme

\* C8: scheme() always returns the scheme its signer was built with, and no
\* call, failing or not, changes a signer's key or scheme.
C8_SchemeBound == []SchemeCallsReturnBound /\ [][signers' = signers]_vars

\* scheme() on a randomized signer bound to ECDSA_NISTP256_SHA256, after one
\* failed and one successful sign() on it.
C8_Witness ==
    /\ Len(signLog) = 3
    /\ signLog[3].op = "scheme"
    /\ signLog[3].scheme = "ECDSA_NISTP256_SHA256"
    /\ signers[signLog[3].id].kind = "GenericRandomizedSigner"
    /\ \A i \in {1, 2} : signLog[i].op = "sign" /\ signLog[i].id = signLog[3].id
    /\ ~signLog[1].result.ok
    /\ signLog[2].result.ok

\* C9: each sign() invokes the primitive of its signer's key once, on the
\* message it was given, and returns that invocation's outcome: a failure is
\* reported as a failure and nothing is tried again.
C9_ExactlyOnce ==
    \A i \in SignCalls :
        LET e == signLog[i]
        IN  /\ Len(e.prim) = 1
            /\ e.prim[1].key = signers[e.id].key
            /\ e.prim[1].msg = e.msg
            /\ e.result.ok <=> e.prim[1].out.ok

\* A randomized and a deterministic sign() both failed.
C9_Witness ==
    \E i \in SignCallsOn("GenericRandomizedSigner") :
        \E j \in SignCallsOn("GenericSigner") :
            /\ ~signLog[i].result.ok
            /\ ~signLog[j].result.ok

====
